---- MODULE Spec2Model ----
(***************************************************************************)
(* A model of loopback-relation-filter: the search query builder           *)
(* (src/src/SearchQueryBuilder.js), the access hook (src/index.js) and the *)
(* three collaborators the builder requires but whose files are not among  *)
(* the sources (TableAliasProvider, ModelWrapper, SearchQueryNormalizer).  *)
(* The collaborators are modelled from spec.md and from the way the        *)
(* sources and the normalizer's test suite use them.                       *)
(*                                                                         *)
(* JSON values are tagged tuples:                                          *)
(*   an object is a sequence of entries <<key, value>> in key order;       *)
(*   a value is <<"s", scalar>>, <<"ops", <<operator, scalar>> >>,         *)
(*   <<"obj", object>> or <<"list", sequence of objects>>.                 *)
(***************************************************************************)
EXTENDS Integers, Sequences, FiniteSets, TLC

VARIABLES
    providers,   \* the alias providers alive: their counters, parent, birth
    issued,      \* the log of createAlias calls: provider and alias returned
    raw,         \* the where filter handed to the normalizer
    rejectUnknownProperties,  \* the normalizer's option
    normalized,  \* the result of normalizeWhereQuery(raw)
    renormalized,\* the result of normalizing that result again
    step,        \* how far the normalizer's caller has got
    builderOptions,     \* the options the SearchQueryBuilder was constructed with
    request,     \* the model name and filter buildQuery is called with
    normalizedOrder,\* the result of normalizeOrder inside buildQuery
    built,       \* what buildQuery returned or threw
    builderAliases, \* the alias provider the last buildQuery allocated
    history,     \* the builds made on the builder so far
    ctx,         \* the context the access hook is invoked with
    executed,    \* the statements passed to connector.execute
    calledBack,  \* the calls of execute's callback, with their arguments
    loaded,      \* ctx.result as the remote method left it, before the after hook
    nextCalls,   \* the calls of next, with their arguments
    pc,          \* where the access hook stands
    leafCall,    \* the column, value and connective applyPropertyFilter is given
    applied      \* what that call of applyPropertyFilter returned or threw

aliasVars == <<providers, issued>>
normVars == <<raw, rejectUnknownProperties, normalized, renormalized, step>>
buildVars == <<builderOptions, request, normalizedOrder, built, builderAliases, history>>
hookVars == <<ctx, executed, calledBack, loaded, nextCalls, pc>>
leafVars == <<leafCall, applied>>
vars == <<aliasVars, normVars, buildVars, hookVars, leafVars>>

\* bounds of the alias provider specification
MaxProviders == 3
MaxIssued == 3

\* bounds of the filters drawn as inputs: members of an and/or list, keys of
\* a filter in total and relation depth, for the normalizer and for the builder
MaxList == 2
MaxKeys == 3
MaxDepth == 1
MaxBuildKeys == 4
MaxBuildDepth == 2
\* the builds made on one builder, and the keys of the where filters the hook
\* is given
MaxBuilds == 3
MaxHookKeys == 2
\* the clauses of an order array given to normalizeOrder
MaxClauses == 2

(***************************************************************************)
(* The schema registry (host owned, read only).  The entities are the ones *)
(* the normalizer's tests use: Book, Author, Publisher.                    *)
(***************************************************************************)
NONE == ""

ModelNames == {"Book", "Author", "Publisher"}

Properties(m) ==
    CASE m = "Book"      -> {"id", "title", "publisherId"}
      [] m = "Author"    -> {"id", "firstName"}
      [] m = "Publisher" -> {"id", "name"}
      [] OTHER           -> {"id"}

\* relation definitions: name, keys, target model, pivot model (NONE: a reference)
RelationDefs(m) ==
    CASE m = "Book" ->
           { [name |-> "authors", keyFrom |-> "id", keyTo |-> "bookId",
              keyThrough |-> "authorId", modelTo |-> "Author",
              modelThrough |-> "AuthorBook"],
             [name |-> "publisher", keyFrom |-> "publisherId", keyTo |-> "id",
              keyThrough |-> NONE, modelTo |-> "Publisher",
              modelThrough |-> NONE] }
      [] m = "Author" ->
           { [name |-> "books", keyFrom |-> "id", keyTo |-> "authorId",
              keyThrough |-> "bookId", modelTo |-> "Book",
              modelThrough |-> "AuthorBook"] }
      [] m = "Publisher" ->
           { [name |-> "books", keyFrom |-> "id", keyTo |-> "publisherId",
              keyThrough |-> NONE, modelTo |-> "Book",
              modelThrough |-> NONE] }
      [] OTHER -> {}

(***************************************************************************)
(* ModelWrapper (spec.md 4.2): schema membership and column resolution.    *)
(***************************************************************************)
RelationNames(m) == { r.name : r \in RelationDefs(m) }

isProperty(m, name) == name \in Properties(m)

isRelation(m, name) == name \in RelationNames(m)

getRelation(m, name) == CHOOSE r \in RelationDefs(m) : r.name = name

(***************************************************************************)
(* JSON helpers.                                                           *)
(***************************************************************************)
Str(x) == <<"str", x>>

Pattern(source, ignoreCase) == <<"re", source, ignoreCase>>

Undefined == <<"undefined">>

Null == <<"null">>

Num(digits) == <<"num", digits>>

Bool(word) == <<"bool", word>>

\* the values JavaScript's ! takes for false
FalsyValues == { Null, Undefined, Num("0"), Str(""), Bool("false") }

Scalar(x) == <<"s", x>>

Ops(pairs) == <<"ops", pairs>>

Obj(o) == <<"obj", o>>

List(l) == <<"list", l>>

Keys(o) == { o[i][1] : i \in 1..Len(o) }

HasKey(o, k) == k \in Keys(o)

Get(o, k) == o[CHOOSE i \in 1..Len(o) : o[i][1] = k][2]

\* the members of the list under key k, none when the key is absent
ListAt(o, k) == IF HasKey(o, k) THEN Get(o, k)[2] ELSE << >>

RECURSIVE Concat(_)
\* a value computed once and named, as a const declaration does
Let(value, In(_)) == In(value)

Concat(ss) == IF ss = << >> THEN << >> ELSE Head(ss) \o Concat(Tail(ss))

(***************************************************************************)
(* The operators the builder supports and hands to the normalizer.         *)
(***************************************************************************)
supportedOperators ==
    <<"=", "neq", "lt", "lte", "gt", "gte", "like", "nlike", "ilike", "nilike",
      "inq", "nin", "between", "regexp">>

IsSupported(op) == \E i \in 1..Len(supportedOperators) : supportedOperators[i] = op

(***************************************************************************)
(* SearchQueryNormalizer.normalizeWhereQuery (spec.md 4.1 and the test     *)
(* suite of the normalizer).  A result is [err, val]: err names the error  *)
(* thrown (NONE: none) and val is the normalized value.                    *)
(***************************************************************************)
Ok(v) == [err |-> NONE, val |-> v]

Fail(e) == [err |-> e, val |-> << >>]

\* "/source/" and "/source/i" are parsed into a pattern; a pattern passes through
parseRegExp(v) ==
    CASE v = Str("/a/")  -> Pattern("a", FALSE)
      [] v = Str("/a/i") -> Pattern("a", TRUE)
      [] OTHER           -> v

normalizeOperator(pair) ==
    IF pair[1] = "regexp" THEN <<pair[1], parseRegExp(pair[2])>> ELSE pair

normalizePropertyBare(value) ==
    IF value[1] = "s"
    THEN Ok(value)
    ELSE IF \E i \in 1..Len(value[2]) : ~IsSupported(value[2][i][1])
         THEN Fail("UnknownOperatorError")
         ELSE Ok(Ops([i \in 1..Len(value[2]) |-> normalizeOperator(value[2][i])]))

\* a property's value: a bare scalar gets the equality operator, an operator
\* object passes through when its operators are supported
normalizeProperty(value) ==
    IF value[1] = "s"
    THEN Ok(Ops(<< <<"=", value[2]>> >>))
    ELSE IF \E i \in 1..Len(value[2]) : ~IsSupported(value[2][i][1])
         THEN Fail("UnknownOperatorError")
         ELSE Ok(Ops([i \in 1..Len(value[2]) |-> normalizeOperator(value[2][i])]))

\* the first error of a sequence of results, NONE when there is none
FirstError(rs) ==
    IF \E i \in 1..Len(rs) : rs[i].err # NONE
    THEN rs[CHOOSE i \in 1..Len(rs) :
                /\ rs[i].err # NONE
                /\ \A j \in 1..(i - 1) : rs[j].err = NONE].err
    ELSE NONE

FlattenMemberNested(nm) == << nm >>

\* what a normalized member of an explicit and-list adds to the level's group:
\* its own and-group, or itself when it is an or-node
FlattenMember(nm) == IF HasKey(nm, "and") THEN ListAt(nm, "and") ELSE << nm >>

\* a normalized member of an or-list: a single leaf stands for itself
UnwrapMember(nm) ==
    IF HasKey(nm, "and") /\ Len(ListAt(nm, "and")) = 1
    THEN ListAt(nm, "and")[1]
    ELSE nm

\* the normalized level: the and-group, with the or-node as its last member;
\* a level that holds nothing but an or-list is that or-node
GroupLevel(group, hasOr, orMembers) ==
    IF ~hasOr THEN << <<"and", List(group)>> >>
    ELSE IF group = << >> THEN << <<"or", List(orMembers)>> >>
    ELSE << <<"and", List(Append(group, << <<"or", List(orMembers)>> >>))>> >>

dropAlways(reject) == Ok(<< >>)

\* a name that is no property and no relation of the entity: an error when
\* unknown properties are rejected, no leaf otherwise
rejectOrDrop(reject) == IF reject THEN Fail("UnknownPropertyError") ELSE Ok(<< >>)

RECURSIVE normalizeWhereQuery(_, _, _)

\* the leaves one entry of a level yields: one leaf for a property or a relation,
\* none for and/or (handled by the level) and for a dropped unknown name
normalizeEntry(rootModelName, entry, reject) ==
    LET name == entry[1]
    IN  IF name \in {"and", "or"} THEN Ok(<< >>)
        ELSE IF isRelation(rootModelName, name)
        THEN LET sub == normalizeWhereQuery(
                            getRelation(rootModelName, name).modelTo, entry[2][2], reject)
             IN  IF sub.err # NONE THEN Fail(sub.err)
                 ELSE Ok(<< << <<name, Obj(sub.val)>> >> >>)
        ELSE IF isProperty(rootModelName, name)
        THEN LET prop == normalizeProperty(entry[2])
             IN  IF prop.err # NONE THEN Fail(prop.err)
                 ELSE Ok(<< << <<name, prop.val>> >> >>)
        ELSE rejectOrDrop(reject)

normalizeWhereQuery(rootModelName, where, reject) ==
    LET direct  == [i \in 1..Len(where) |-> normalizeEntry(rootModelName, where[i], reject)]
        andRaw  == ListAt(where, "and")
        orRaw   == ListAt(where, "or")
        andN    == [i \in 1..Len(andRaw) |->
                        normalizeWhereQuery(rootModelName, andRaw[i], reject)]
        orN     == [i \in 1..Len(orRaw) |->
                        normalizeWhereQuery(rootModelName, orRaw[i], reject)]
        err     == FirstError(direct \o andN \o orN)
        group   == Concat([i \in 1..Len(direct) |-> direct[i].val])
                   \o Concat([i \in 1..Len(andN) |-> FlattenMember(andN[i].val)])
        members == [i \in 1..Len(orN) |-> UnwrapMember(orN[i].val)]
    IN  IF err # NONE THEN Fail(err)
        ELSE Ok(GroupLevel(group, HasKey(where, "or"), members))


(***************************************************************************)
(* The raw where filters the specifications draw their inputs from: every  *)
(* object over an entity with at most a given number of keys in total,     *)
(* nested through relations up to a given depth.  Properties take a bare   *)
(* scalar, a supported operator, a regexp given as a string, or an         *)
(* operator that is not supported; "test" is on no entity.                 *)
(***************************************************************************)
FilterProperty(m) ==
    CASE m = "Book"      -> "title"
      [] m = "Author"    -> "firstName"
      [] m = "Publisher" -> "name"
      [] OTHER           -> "id"

UnknownName == "test"

LeafValues ==
    { Scalar(Str("a")),
      Ops(<< <<"like", Str("a")>> >>),
      Ops(<< <<"regexp", Str("/a/i")>> >>),
      Ops(<< <<"foo", Str("a")>> >>) }

\* the leaves of the filters given to the normalizer (rich) and of those given
\* to the builder, whose filters are about relations
LeafEntries(m, rich) ==
    IF rich
    THEN { <<FilterProperty(m), v>> : v \in LeafValues }
         \cup { <<"id", Scalar(Str("b"))>>, <<UnknownName, Scalar(Str("a"))>> }
    ELSE { <<FilterProperty(m), Scalar(Str("a"))>> }

RECURSIVE ObjectsOfSize(_, _, _, _)
RECURSIVE ListsOfSize(_, _, _, _, _)

EntriesOfSize(m, c, depth, rich) ==
    (IF c = 1 THEN LeafEntries(m, rich) ELSE {})
    \cup (IF depth > 0
          THEN UNION { { <<r.name, Obj(sub)>> :
                            sub \in ObjectsOfSize(r.modelTo, c - 1, depth - 1, rich) } :
                       r \in RelationDefs(m) }
          ELSE {})
    \cup { <<k, List(l)>> : k \in {"and", "or"},
                            l \in ListsOfSize(m, c - 1, depth, MaxList, rich) }

ObjectsOfSize(m, n, depth, rich) ==
    IF n = 0 THEN { << >> }
    ELSE UNION { UNION { { << e >> \o rest :
                              rest \in { o \in ObjectsOfSize(m, n - c, depth, rich) :
                                            e[1] \notin Keys(o) } } :
                         e \in EntriesOfSize(m, c, depth, rich) } :
                 c \in 1..n }

ListsOfSize(m, n, depth, len, rich) ==
    IF n = 0 THEN { << >> }
    ELSE IF len = 0 THEN {}
    ELSE UNION { UNION { { << o >> \o l :
                              l \in ListsOfSize(m, n - c, depth, len - 1, rich) } :
                         o \in ObjectsOfSize(m, c, depth, rich) } :
                 c \in 1..n }

RawFilters(m, n, depth, rich) == UNION { ObjectsOfSize(m, k, depth, rich) : k \in 0..n }

\* the order inputs: none, a clause as a string, arrays of clauses, one of them
\* naming a property twice
OrderInputs ==
    { <<"none">>,
      <<"str", [path |-> <<"title">>, dir |-> "ASC"]>>,
      <<"arr", << [path |-> <<"publisher", "name">>, dir |-> "DESC"] >> >>,
      <<"arr", << [path |-> <<"authors", "firstName">>, dir |-> NONE],
                  [path |-> <<"title">>, dir |-> "desc"] >> >>,
      <<"arr", << [path |-> <<"title">>, dir |-> "ASC"],
                  [path |-> <<"title">>, dir |-> "DESC"] >> >> }

\* the constructor's defaults, unknown names rejected, lower-cased columns
\* with left joins
DefaultOptions ==
    [rejectUnknownProperties |-> FALSE, preserveColumnCase |-> TRUE, joinMethod |-> "inner"]

OptionInputs ==
    { DefaultOptions,
      [DefaultOptions EXCEPT !.rejectUnknownProperties = TRUE],
      [DefaultOptions EXCEPT !.preserveColumnCase = FALSE, !.joinMethod = "left"] }


(***************************************************************************)
(* TableAliasProvider (spec.md 4.3).  A provider keeps one counter per     *)
(* alias base (model, relation, through); an alias is the base with the    *)
(* counter's value.  spawnProvider hands the child a copy of the counters: *)
(* queryRelationsAndProperties spawns one provider for the joins and one   *)
(* for the filters and relies on the second repeating the aliases of the   *)
(* first.                                                                  *)
(***************************************************************************)
NewProvider == [b \in {} |-> 0]

Counter(aliases, base) == IF base \in DOMAIN aliases THEN aliases[base] ELSE 0

AliasBase(model, relation, through) == <<model, relation, through>>

\* the alias createAlias returns
ProviderAlias(aliases, model, relation, through) ==
    [base |-> AliasBase(model, relation, through),
     n    |-> Counter(aliases, AliasBase(model, relation, through))]

\* the provider's counters after createAlias
ProviderAfterAlias(aliases, model, relation, through) ==
    LET base == AliasBase(model, relation, through)
    IN  [b \in DOMAIN aliases \cup {base} |->
            IF b = base THEN Counter(aliases, base) + 1 ELSE aliases[b]]

spawnProviderFresh(aliases) == NewProvider

spawnProvider(aliases) == aliases

(***************************************************************************)
(* SearchQueryBuilder.createAlias: the request the builder sends to the    *)
(* provider for a model, a relation definition (NONE: the root) and the    *)
(* forThrough flag.                                                        *)
(***************************************************************************)
NoRelation == [name |-> NONE, keyFrom |-> NONE, keyTo |-> NONE, keyThrough |-> NONE,
               modelTo |-> NONE, modelThrough |-> NONE]

createAliasRequest(model, relation, forThrough) ==
    <<model,
      relation.name,
      IF forThrough /\ relation.name # NONE THEN relation.modelThrough ELSE NONE>>

createAlias(aliases, model, relation, forThrough) ==
    LET rq == createAliasRequest(model, relation, forThrough)
    IN  [alias   |-> ProviderAlias(aliases, rq[1], rq[2], rq[3]),
         aliases |-> ProviderAfterAlias(aliases, rq[1], rq[2], rq[3])]

(***************************************************************************)
(* ModelWrapper (spec.md 4.2): a schema entity bound to a table alias.     *)
(***************************************************************************)
NoAlias == [base |-> AliasBase(NONE, NONE, NONE), n |-> 0]

fromModel(modelName, alias) == [name |-> modelName, alias |-> alias]

NoModel == fromModel(NONE, NoAlias)

\* lower-casing of the column names of the schema
Lower(name) ==
    CASE name = "firstName"   -> "firstname"
      [] name = "publisherId" -> "publisherid"
      [] name = "bookId"      -> "bookid"
      [] name = "authorId"    -> "authorid"
      [] OTHER                -> name

\* alias.column; no property of the schema overrides its column name
getColumnName(model, key, preserveCase) ==
    [alias |-> model.alias, column |-> IF preserveCase THEN key ELSE Lower(key)]

getAliasedTable(model) == [table |-> model.name, alias |-> model.alias]

\* the property of the through-relation's target that points back through the
\* same pivot, NONE when the target declares no such relation
getPropertyQueriedThrough(model, relation) ==
    LET back == { r \in RelationDefs(model.name) :
                    r.modelThrough = relation.modelThrough /\ r.modelThrough # NONE }
    IN  IF back = {} THEN NONE ELSE (CHOOSE r \in back : TRUE).keyFrom

(***************************************************************************)
(* SearchQueryBuilder: alias tracking and join collection.                 *)
(***************************************************************************)
_trackAliasesOneAlias(rootModel, relationName, provider, seenRelations, preserveCase) ==
    IF relationName \in DOMAIN seenRelations
    THEN [result |-> seenRelations[relationName], provider |-> provider,
          seen |-> seenRelations]
    ELSE LET relation == getRelation(rootModel.name, relationName)
             first    == createAlias(provider, rootModel.name, relation, FALSE)
             modelTo  == fromModel(relation.modelTo, first.alias)
             result   == [keyFrom      |-> getColumnName(rootModel, relation.keyFrom,
                                                         preserveCase),
                          modelTo      |-> modelTo,
                          relation     |-> relation,
                          table        |-> getAliasedTable(modelTo),
                          modelThrough |-> IF relation.modelThrough # NONE
                                           THEN fromModel(relation.modelThrough, first.alias)
                                           ELSE NoModel]
         IN  [result |-> result, provider |-> first.aliases,
              seen |-> seenRelations @@ (relationName :> result)]

\* the aliases of a relation of rootModel: those found before under its name, or
\* new ones (the target's, then the pivot's), remembered under its name
_trackAliases(rootModel, relationName, provider, seenRelations, preserveCase) ==
    IF relationName \in DOMAIN seenRelations
    THEN [result |-> seenRelations[relationName], provider |-> provider,
          seen |-> seenRelations]
    ELSE Let(getRelation(rootModel.name, relationName), LAMBDA relation :
         Let(createAlias(provider, rootModel.name, relation, FALSE), LAMBDA first :
         Let(fromModel(relation.modelTo, first.alias), LAMBDA modelTo :
         Let(IF relation.modelThrough # NONE
             THEN createAlias(first.aliases, rootModel.name, relation, TRUE)
             ELSE [alias |-> NoAlias, aliases |-> first.aliases], LAMBDA second :
         Let([keyFrom      |-> getColumnName(rootModel, relation.keyFrom, preserveCase),
              modelTo      |-> modelTo,
              relation     |-> relation,
              table        |-> getAliasedTable(modelTo),
              modelThrough |-> IF relation.modelThrough # NONE
                               THEN fromModel(relation.modelThrough, second.alias)
                               ELSE NoModel], LAMBDA result :
             [result |-> result, provider |-> second.aliases,
              seen |-> seenRelations @@ (relationName :> result)])))))

_joinReference(aliases, preserveCase) ==
    [table   |-> aliases.table,
     keyFrom |-> aliases.keyFrom,
     keyTo   |-> getColumnName(aliases.modelTo, aliases.relation.keyTo, preserveCase)]

\* the pivot's join, then the target's
_joinMapping(aliases, preserveCase) ==
    LET targetModelId == IF preserveCase THEN "id" ELSE Lower("id")
        relationTargetProperty ==
            getPropertyQueriedThrough(aliases.modelTo, aliases.relation)
        targetKey == IF relationTargetProperty # NONE
                     THEN relationTargetProperty ELSE targetModelId
    IN  << [table   |-> getAliasedTable(aliases.modelThrough),
            keyFrom |-> aliases.keyFrom,
            keyTo   |-> getColumnName(aliases.modelThrough, aliases.relation.keyTo,
                                      preserveCase)],
           [table   |-> aliases.table,
            keyFrom |-> getColumnName(aliases.modelThrough, aliases.relation.keyThrough,
                                      preserveCase),
            keyTo   |-> getColumnName(aliases.modelTo, targetKey, preserveCase)] >>

\* the (propertyName, query) pairs _forEachQuery visits: every key of every
\* member of the collection, in order
_forEachQuery(collection) == Concat(collection)

\* the object under a key, the empty object when the value is no object
QueryOf(value) == IF value[1] = "obj" THEN value[2] ELSE << >>

\* the visit without the test for relations seen before
JoinEntryUnchecked(rootModel, entry, st, preserveCase) ==
    IF isRelation(rootModel.name, entry[1])
    THEN Let(_trackAliases(rootModel, entry[1], st.provider, st.relations, preserveCase),
             LAMBDA t :
             [provider  |-> t.provider,
              relations |-> t.seen,
              children  |-> Append(st.children,
                                   [model |-> t.result.modelTo, query |-> QueryOf(entry[2])]),
              joins     |-> st.joins \o
                            (IF t.result.modelThrough = NoModel
                             THEN << _joinReference(t.result, preserveCase) >>
                             ELSE _joinMapping(t.result, preserveCase))])
    ELSE st

\* one visit of getAllJoins' callback: a relation not yet seen at this level is
\* aliased, joined, and queued with its query for the next level
JoinEntry(rootModel, entry, st, preserveCase) ==
    IF isRelation(rootModel.name, entry[1]) /\ entry[1] \notin DOMAIN st.relations
    THEN Let(_trackAliases(rootModel, entry[1], st.provider, st.relations, preserveCase),
             LAMBDA t :
             [provider  |-> t.provider,
              relations |-> t.seen,
              children  |-> Append(st.children,
                                   [model |-> t.result.modelTo, query |-> QueryOf(entry[2])]),
              joins     |-> st.joins \o
                            (IF t.result.modelThrough = NoModel
                             THEN << _joinReference(t.result, preserveCase) >>
                             ELSE _joinMapping(t.result, preserveCase))])
    ELSE st

RECURSIVE JoinEntries(_, _, _, _)
JoinEntries(rootModel, entries, st, preserveCase) ==
    IF entries = << >> THEN st
    ELSE JoinEntries(rootModel, Tail(entries),
                     JoinEntry(rootModel, Head(entries), st, preserveCase), preserveCase)

RECURSIVE getAllJoins(_, _, _, _, _)
RECURSIVE JoinChildren(_, _, _)

\* the joins of the lower levels, child after child, appended to acc.joins
JoinChildren(children, acc, preserveCase) ==
    IF children = << >> THEN acc
    ELSE LET query      == Head(children).query
             childOrder == IF ~HasKey(query, "and") /\ ~HasKey(query, "or")
                           THEN << query >> ELSE << >>
         IN  Let(getAllJoins(Head(children).model, query, childOrder, acc.provider,
                             preserveCase),
                 LAMBDA lower :
                 JoinChildren(Tail(children),
                              [joins |-> acc.joins \o lower.joins,
                               provider |-> lower.provider],
                              preserveCase))

\* the joins of a normalized query and the order clauses, level by level, and
\* the provider after them
getAllJoins(rootModel, query, order, provider, preserveCase) ==
    LET filters == ListAt(query, "and") \o ListAt(query, "or") \o order
    IN  Let(JoinEntries(rootModel, _forEachQuery(filters),
                        [provider |-> provider, relations |-> << >>,
                         children |-> << >>, joins |-> << >>],
                        preserveCase),
            LAMBDA level :
            JoinChildren(level.children,
                         [joins |-> level.joins, provider |-> level.provider],
                         preserveCase))


(***************************************************************************)
(* SearchQueryBuilder: predicates.  A statement of a (sub)builder is       *)
(* <<"pred", bool, column, operator, value>> or <<"group", bool, body>>,   *)
(* bool being the connective ("and"/"or") that ties it to what precedes.   *)
(***************************************************************************)
getConnectorName(model) == "postgresql"

operatorMap(connectorName, operator) ==
    IF connectorName = "postgresql"
    THEN CASE operator = "neq"     -> "!="
           [] operator = "gt"      -> ">"
           [] operator = "lt"      -> "<"
           [] operator = "gte"     -> ">="
           [] operator = "lte"     -> "<="
           [] operator = "like"    -> "like"
           [] operator = "ilike"   -> "ilike"
           [] operator = "nlike"   -> "not like"
           [] operator = "nilike"  -> "not ilike"
           [] operator = "regexp"  -> "~"
           [] operator = "iregexp" -> "~*"
           [] OTHER                -> "undefined"
    ELSE CASE operator = "neq"     -> "!="
           [] operator = "gt"      -> ">"
           [] operator = "lt"      -> "<"
           [] operator = "gte"     -> ">="
           [] operator = "lte"     -> "<="
           [] operator = "like"    -> "like binary"
           [] operator = "ilike"   -> "like"
           [] operator = "nlike"   -> "not like binary"
           [] operator = "nilike"  -> "not like"
           [] operator = "regexp"  -> "regexp binary"
           [] operator = "iregexp" -> "regexp"
           [] OTHER                -> "undefined"

Returned(stmts) == [err |-> NONE, stmts |-> stmts]

Thrown(e) == [err |-> e, stmts |-> << >>]

\* what applyPropertyFilter does for a column and a value: nothing for a falsy
\* value; else the first supported operator the value holds decides, and a
\* value that holds none adds nothing
applyPropertyFilter(property, value, bool, rootModel) ==
    LET held == { i \in 1..Len(supportedOperators) :
                    \E k \in 1..Len(value[2]) : value[2][k][1] = supportedOperators[i] }
    IN  IF value[1] = "s" /\ value[2] \in FalsyValues THEN Returned(<< >>)
        ELSE IF value[1] # "ops" \/ held = {} THEN Returned(<< >>)
        ELSE LET operator == supportedOperators[CHOOSE i \in held : \A j \in held : i <= j]
                 content  == value[2][CHOOSE k \in 1..Len(value[2]) :
                                          value[2][k][1] = operator][2]
                 map      == getConnectorName(rootModel)
             IN  CASE operator = "=" ->
                        Returned(<< <<"pred", bool, property, "=", content>> >>)
                   [] operator \in {"neq", "gt", "lt", "gte", "lte", "like", "ilike",
                                    "nlike", "nilike"} ->
                        Returned(<< <<"pred", bool, property, operatorMap(map, operator),
                                      content>> >>)
                   [] operator = "between" ->
                        Returned(<< <<"pred", bool, property, "between", content>> >>)
                   [] operator = "inq" ->
                        Returned(<< <<"pred", bool, property, "in", content>> >>)
                   [] operator = "nin" ->
                        Returned(<< <<"pred", bool, property, "not in", content>> >>)
                   [] operator = "regexp" ->
                        IF content \in {Null, Undefined}
                        THEN Thrown("TypeError")
                        ELSE IF content[1] = "re"
                        THEN Returned(<< <<"pred", bool, property,
                                  operatorMap(map, IF content[3] THEN "iregexp" ELSE "regexp"),
                                  Str(content[2])>> >>)
                        ELSE Returned(<< <<"pred", bool, property,
                                           operatorMap(map, "regexp"), Undefined>> >>)
                   [] OTHER -> Thrown("UnknownOperatorError")

RECURSIVE applyFilters(_, _, _, _, _)
RECURSIVE _handleFilters(_, _, _, _, _)

\* one visit of _handleFilters' callback; st holds the statements of the group,
\* the provider and the relations seen at this level
FilterEntry(rootModel, entry, st, isOr, preserveCase) ==
    LET bool == IF isOr THEN "or" ELSE "and"
    IN  IF isRelation(rootModel.name, entry[1])
        THEN Let(_trackAliases(rootModel, entry[1], st.provider, st.relations,
                               preserveCase), LAMBDA t :
             Let(applyFilters(t.result.modelTo, QueryOf(entry[2]), t.provider, bool,
                              preserveCase), LAMBDA sub :
                 [stmts |-> st.stmts \o sub.stmts, provider |-> sub.provider,
                  relations |-> t.seen]))
        ELSE IF isProperty(rootModel.name, entry[1])
        THEN [st EXCEPT !.stmts = @ \o applyPropertyFilter(
                    getColumnName(rootModel, entry[1], preserveCase), entry[2], bool,
                    rootModel).stmts]
        ELSE IF entry[1] \in {"or", "and"}
        THEN Let(applyFilters(rootModel, << entry >>, st.provider, bool, preserveCase),
                 LAMBDA sub :
                 [st EXCEPT !.stmts = @ \o sub.stmts, !.provider = sub.provider])
        ELSE st

_handleFilters(rootModel, entries, st, isOr, preserveCase) ==
    IF entries = << >> THEN st
    ELSE _handleFilters(rootModel, Tail(entries),
                        FilterEntry(rootModel, Head(entries), st, isOr, preserveCase),
                        isOr, preserveCase)

\* the two groups applyFilters adds to a builder, the first tied by bool (what
\* builder.or / builder.and left pending), and the provider after them
applyFilters(rootModel, query, provider, bool, preserveCase) ==
    Let(_handleFilters(rootModel, _forEachQuery(ListAt(query, "and")),
                       [stmts |-> << >>, provider |-> provider, relations |-> << >>],
                       FALSE, preserveCase), LAMBDA ands :
    Let(_handleFilters(rootModel, _forEachQuery(ListAt(query, "or")),
                       [stmts |-> << >>, provider |-> ands.provider,
                        relations |-> ands.relations],
                       TRUE, preserveCase), LAMBDA ors :
        [stmts    |-> << <<"group", bool, ands.stmts>>, <<"group", "and", ors.stmts>> >>,
         provider |-> ors.provider]))

(***************************************************************************)
(* SearchQueryBuilder: order.  An order statement is the aggregate column  *)
(* and the order-by entry applyPropertyOrder adds.                         *)
(***************************************************************************)
applyPropertyOrderMin(orderAlias, property, direction) ==
    [fn |-> "min", as |-> orderAlias, column |-> property, orderBy |-> orderAlias,
     direction |-> direction]

applyPropertyOrder(orderAlias, property, direction) ==
    [fn        |-> IF direction = <<"dir", "asc">> THEN "min" ELSE "max",
     as        |-> orderAlias,
     column    |-> property,
     orderBy   |-> orderAlias,
     direction |-> direction]

RECURSIVE _handleOrder(_, _, _, _)

\* one key of an order directive: a relation is followed into its target, a
\* property is ordered by
OrderEntry(rootModel, entry, st, preserveCase) ==
    Let(IF isRelation(rootModel.name, entry[1])
        THEN Let(_trackAliases(rootModel, entry[1], st.provider, st.relations,
                               preserveCase), LAMBDA t :
                 _handleOrder(t.result.modelTo, QueryOf(entry[2]),
                              [st EXCEPT !.provider = t.provider, !.relations = t.seen],
                              preserveCase))
        ELSE st, LAMBDA followed :
        IF isProperty(rootModel.name, entry[1])
        THEN [followed EXCEPT !.stmts = Append(@,
                  applyPropertyOrder(<<rootModel.alias, entry[1]>>,
                                     getColumnName(rootModel, entry[1], preserveCase),
                                     entry[2]))]
        ELSE followed)

_handleOrder(rootModel, order, st, preserveCase) ==
    IF order = << >> THEN st
    ELSE _handleOrder(rootModel, Tail(order),
                      OrderEntry(rootModel, Head(order), st, preserveCase), preserveCase)

RECURSIVE OrderClauses(_, _, _, _)
OrderClauses(rootModel, orderClauses, st, preserveCase) ==
    IF orderClauses = << >> THEN st
    ELSE OrderClauses(rootModel, Tail(orderClauses),
                      _handleOrder(rootModel, Head(orderClauses), st, preserveCase),
                      preserveCase)

\* the order statements of all clauses; one relations map serves them all
applyOrder(rootModel, orderClauses, provider, preserveCase) ==
    OrderClauses(rootModel, orderClauses,
                 [stmts |-> << >>, provider |-> provider, relations |-> << >>],
                 preserveCase)


(***************************************************************************)
(* SearchQueryNormalizer.normalizeOrder (spec.md 4.1).  The order input is *)
(* <<"none">>, <<"str", clause>> or <<"arr", clauses>>; a clause           *)
(* "r1.r2.p DIR" is [path |-> <<r1, r2, p>>, dir |-> DIR], dir being NONE  *)
(* when the token is left out.                                             *)
(***************************************************************************)
LowerDirectionKept(token) == IF token = NONE THEN "asc" ELSE token

\* the direction of a clause: its token in lower case, asc without a token
LowerDirection(token) ==
    CASE token = NONE   -> "asc"
      [] token = "ASC"  -> "asc"
      [] token = "Asc"  -> "asc"
      [] token = "DESC" -> "desc"
      [] token = "Desc" -> "desc"
      [] OTHER          -> token

RECURSIVE resolveOrderPath(_, _, _, _)
\* the nested directive of a path, << >> when a name of the path is unknown and
\* dropped
resolveOrderPath(rootModelName, path, direction, reject) ==
    IF Len(path) = 1
    THEN IF isProperty(rootModelName, path[1])
         THEN Ok(<< <<path[1], <<"dir", direction>> >> >>)
         ELSE IF reject THEN Fail("UnknownPropertyError") ELSE Ok(<< >>)
    ELSE IF isRelation(rootModelName, path[1])
         THEN LET sub == resolveOrderPath(getRelation(rootModelName, path[1]).modelTo,
                                          Tail(path), direction, reject)
              IN  IF sub.err # NONE THEN sub
                  ELSE IF sub.val = << >> THEN sub
                  ELSE Ok(<< <<path[1], Obj(sub.val)>> >>)
         ELSE IF reject THEN Fail("UnknownPropertyError") ELSE Ok(<< >>)

normalizeOrder(rootModelName, order, reject) ==
    LET clauses == CASE order[1] = "str" -> << order[2] >>
                     [] order[1] = "arr" -> order[2]
                     [] OTHER            -> << >>
        each    == [i \in 1..Len(clauses) |->
                       resolveOrderPath(rootModelName, clauses[i].path,
                                        LowerDirection(clauses[i].dir), reject)]
        err     == FirstError(each)
    IN  IF err # NONE THEN Fail(err)
        ELSE Ok(SelectSeq([i \in 1..Len(each) |-> each[i].val], LAMBDA d : d # << >>))

(***************************************************************************)
(* SearchQueryBuilder.buildQuery.  options are the constructor's;          *)
(* filter is [where, order, limit, skip], where being the empty object     *)
(* and limit/skip 0 when the request has none.                             *)
(***************************************************************************)
\* what queryRelationsAndProperties adds to the root select
queryRelationsAndProperties(rootModel, aliasProvider, query, order, options) ==
    LET joinAliasProvider   == spawnProvider(aliasProvider)
        filterAliasProvider == spawnProvider(aliasProvider)
        joins   == getAllJoins(rootModel, query, order, joinAliasProvider,
                               options.preserveColumnCase)
    IN  Let(applyFilters(rootModel, query, filterAliasProvider, "and",
                         options.preserveColumnCase), LAMBDA filters :
        Let(applyOrder(rootModel, order, filters.provider, options.preserveColumnCase),
            LAMBDA orders :
            [joinMethod |-> IF options.joinMethod = "left" THEN "left" ELSE "inner",
             joins      |-> joins.joins,
             where      |-> filters.stmts,
             order      |-> orders.stmts]))

NoQuery == [table |-> NONE]

\* the result of createRootQuery: the error thrown, or the query
createRootQuery(rootModel, aliasProvider, filter, options) ==
    LET id == getColumnName(rootModel, "id", options.preserveColumnCase)
    IN  Let(normalizeWhereQuery(rootModel.name, filter.where,
                                options.rejectUnknownProperties), LAMBDA where :
        Let(normalizeOrder(rootModel.name, filter.order,
                           options.rejectUnknownProperties), LAMBDA order :
            IF where.err # NONE THEN [err |-> where.err, query |-> NoQuery]
            ELSE IF order.err # NONE THEN [err |-> order.err, query |-> NoQuery]
            ELSE Let(queryRelationsAndProperties(rootModel, aliasProvider, where.val,
                                                 order.val, options), LAMBDA body :
                     [err   |-> NONE,
                      query |-> [table      |-> getAliasedTable(rootModel),
                                 select     |-> id,
                                 groupBy    |-> id,
                                 joinMethod |-> body.joinMethod,
                                 joins      |-> body.joins,
                                 where      |-> body.where,
                                 order      |-> body.order,
                                 limit      |-> filter.limit,
                                 offset     |-> filter.skip]])))

newTableAliasProviderReused(last) == last

\* new TableAliasProvider(): nothing of the provider an earlier build left
\* behind (last) is kept
newTableAliasProvider(last) == NewProvider

\* the provider buildQuery allocates, after the root alias
buildQueryProvider(last, modelName) ==
    createAlias(newTableAliasProvider(last), modelName, NoRelation, FALSE)

buildQuery(last, modelName, filter, options) ==
    Let(buildQueryProvider(last, modelName), LAMBDA root :
        createRootQuery(fromModel(modelName, root.alias), root.aliases, filter, options))


(***************************************************************************)
(* The alias provider on its own: any sequence of createAlias and          *)
(* spawnProvider calls starting from one fresh provider.                   *)
(***************************************************************************)
\* the requests buildQuery makes for Book and its relations
AliasRequests ==
    { createAliasRequest("Book", NoRelation, FALSE) }
    \cup { createAliasRequest("Book", r, FALSE) : r \in RelationDefs("Book") }
    \cup { createAliasRequest("Book", r, TRUE) :
              r \in { d \in RelationDefs("Book") : d.modelThrough # NONE } }

Pending == [err |-> "pending", val |-> << >>]

NormIdle ==
    /\ raw = << >>
    /\ rejectUnknownProperties = FALSE
    /\ normalized = Pending
    /\ renormalized = Pending
    /\ step = "idle"

NoLeaf == [property |-> NONE]

NotApplied == [err |-> "pending", stmts |-> << >>]

LeafIdle ==
    /\ leafCall = NoLeaf
    /\ applied = NotApplied

AliasIdle ==
    /\ providers = << >>
    /\ issued = << >>

NoRequest == [modelName |-> NONE]

NotBuilt == [err |-> "pending", query |-> NoQuery]

BuildIdle ==
    /\ builderOptions = DefaultOptions
    /\ request = NoRequest
    /\ normalizedOrder = Pending
    /\ built = NotBuilt
    /\ builderAliases = NewProvider
    /\ history = << >>

NoContext == [query |-> << >>]

HookIdle ==
    /\ ctx = NoContext
    /\ executed = << >>
    /\ calledBack = << >>
    /\ loaded = Undefined
    /\ nextCalls = << >>
    /\ pc = "idle"

AliasInit ==
    /\ LeafIdle
    /\ providers = << [aliases |-> NewProvider, parent |-> 0, born |-> 0] >>
    /\ issued = << >>
    /\ NormIdle
    /\ BuildIdle
    /\ HookIdle

ProviderCreateAlias(p, rq) ==
    /\ Len(issued) < MaxIssued
    /\ issued' = Append(issued,
            [by |-> p, alias |-> ProviderAlias(providers[p].aliases, rq[1], rq[2], rq[3])])
    /\ providers' = [providers EXCEPT ![p].aliases =
            ProviderAfterAlias(providers[p].aliases, rq[1], rq[2], rq[3])]
    /\ UNCHANGED <<normVars, buildVars, hookVars, leafVars>>

ProviderSpawn(p) ==
    /\ Len(providers) < MaxProviders
    /\ providers' = Append(providers,
            [aliases |-> spawnProvider(providers[p].aliases),
             parent  |-> p,
             born    |-> Len(issued)])
    /\ UNCHANGED issued
    /\ UNCHANGED <<normVars, buildVars, hookVars, leafVars>>

AliasNext ==
    \/ \E p \in 1..Len(providers), rq \in AliasRequests : ProviderCreateAlias(p, rq)
    \/ \E p \in 1..Len(providers) : ProviderSpawn(p)

SpecAlias == AliasInit /\ [][AliasNext]_vars

(***************************************************************************)
(* The normalizer on its own: a normalizer is constructed (rejection off), *)
(* its option may be set, a where filter over Book is normalized, and the  *)
(* result is normalized again.                                             *)
(***************************************************************************)
NormInit ==
    /\ raw \in RawFilters("Book", MaxKeys, MaxDepth, TRUE)
    /\ rejectUnknownProperties = FALSE
    /\ normalized = Pending
    /\ renormalized = Pending
    /\ step = "new"
    /\ AliasIdle
    /\ LeafIdle
    /\ BuildIdle
    /\ HookIdle

setUnknownPropertyRejection(value) ==
    /\ step = "new"
    /\ rejectUnknownProperties # value
    /\ rejectUnknownProperties' = value
    /\ UNCHANGED <<raw, normalized, renormalized, step, aliasVars, leafVars, buildVars,
                 hookVars>>

NormalizeWhere ==
    /\ step = "new"
    /\ normalized' = normalizeWhereQuery("Book", raw, rejectUnknownProperties)
    /\ step' = "normalized"
    /\ UNCHANGED <<raw, rejectUnknownProperties, renormalized, aliasVars, leafVars, buildVars,
                 hookVars>>

NormalizeAgain ==
    /\ step = "normalized"
    /\ normalized.err = NONE
    /\ renormalized' = normalizeWhereQuery("Book", normalized.val, rejectUnknownProperties)
    /\ step' = "renormalized"
    /\ UNCHANGED <<raw, rejectUnknownProperties, normalized, aliasVars, leafVars, buildVars,
                 hookVars>>

\* what one buildQuery call leaves: its result, the normalized where and order
\* it worked on, the provider it allocated
Build(modelName, filter, opts) ==
    /\ request' = [modelName |-> modelName, filter |-> filter]
    /\ normalized' = normalizeWhereQuery(modelName, filter.where,
                                         opts.rejectUnknownProperties)
    /\ normalizedOrder' = normalizeOrder(modelName, filter.order,
                                      opts.rejectUnknownProperties)
    /\ built' = buildQuery(builderAliases, modelName, filter, opts)
    /\ builderAliases' = buildQueryProvider(builderAliases, modelName).aliases

\* a builder constructed with the normalizer's option builds the query of the
\* where filter
BuildWhere ==
    /\ step = "new"
    /\ Build("Book", [where |-> raw, order |-> <<"none">>, limit |-> 0, skip |-> 0],
             [DefaultOptions EXCEPT !.rejectUnknownProperties = rejectUnknownProperties])
    /\ step' = "built"
    /\ UNCHANGED <<raw, rejectUnknownProperties, renormalized, aliasVars, leafVars,
                 builderOptions, history, hookVars>>

NormNext ==
    \/ \E value \in BOOLEAN : setUnknownPropertyRejection(value)
    \/ NormalizeWhere
    \/ NormalizeAgain
    \/ BuildWhere

SpecNorm == NormInit /\ [][NormNext]_vars

(***************************************************************************)
(* One buildQuery call on a new builder: the filter's where is about       *)
(* relations, its order is one of the order inputs.                        *)
(***************************************************************************)
\* a property of Book beside a relation in one list, the relation's filter
\* being a property, a list of alternatives, or both
ConnectiveFilters ==
    { << <<key, List(<< << <<FilterProperty("Book"), Scalar(Str("a"))>> >>,
                        << <<"authors", Obj(sub)>> >> >>)>> >> :
        key \in {"and", "or"},
        sub \in { << <<FilterProperty("Author"), Scalar(Str("a"))>> >>,
                  << <<"or", List(<< << <<FilterProperty("Author"),
                                          Scalar(Str("a"))>> >> >>)>> >>,
                  << <<FilterProperty("Author"), Scalar(Str("a"))>>,
                     <<"or", List(<< << <<"id", Scalar(Str("b"))>> >> >>)>> >> } }

BuildInit ==
    /\ builderOptions \in OptionInputs
    /\ request \in { [modelName |-> "Book",
                       filter |-> [where |-> w, order |-> o, limit |-> 0, skip |-> 0]] :
                       w \in RawFilters("Book", MaxBuildKeys, MaxBuildDepth, FALSE)
                             \cup ConnectiveFilters,
                       o \in OrderInputs }
    /\ normalizedOrder = Pending
    /\ built = NotBuilt
    /\ builderAliases = NewProvider
    /\ history = << >>
    /\ raw = << >>
    /\ rejectUnknownProperties = FALSE
    /\ normalized = Pending
    /\ renormalized = Pending
    /\ step = "new"
    /\ AliasIdle
    /\ LeafIdle
    /\ HookIdle

BuildQuery ==
    /\ step = "new"
    /\ Build(request.modelName, request.filter, builderOptions)
    /\ step' = "built"
    /\ UNCHANGED <<raw, rejectUnknownProperties, renormalized, aliasVars, leafVars,
                 builderOptions, history, hookVars>>

BuildNext == BuildQuery

SpecBuild == BuildInit /\ [][BuildNext]_vars

(***************************************************************************)
(* Several buildQuery calls on one builder.                                *)
(***************************************************************************)
RebuildRequests ==
    { [modelName |-> m, filter |-> [where |-> w, order |-> o, limit |-> 0, skip |-> 0]] :
        m \in {"Book"},
        w \in { << >>,
                << <<"authors", Obj(<< <<"firstName", Scalar(Str("a"))>> >>)>> >>,
                << <<"publisher", Obj(<< >>)>>, <<"title", Scalar(Str("a"))>> >> },
        o \in { <<"none">>,
                <<"arr", << [path |-> <<"publisher", "name">>, dir |-> "DESC"] >> >> } }
    \cup { [modelName |-> "Author",
            filter |-> [where |-> << <<"books", Obj(<< >>)>> >>, order |-> <<"none">>,
                        limit |-> 0, skip |-> 0]] }

RebuildInit ==
    /\ builderOptions \in OptionInputs
    /\ request = NoRequest
    /\ normalizedOrder = Pending
    /\ built = NotBuilt
    /\ builderAliases = NewProvider
    /\ history = << >>
    /\ NormIdle
    /\ AliasIdle
    /\ LeafIdle
    /\ HookIdle

BuildQueryAgain(rq) ==
    /\ Len(history) < MaxBuilds
    /\ Build(rq.modelName, rq.filter, builderOptions)
    /\ history' = Append(history, [request |-> rq, result |-> built'])
    /\ step' = "built"
    /\ UNCHANGED <<raw, rejectUnknownProperties, renormalized, aliasVars, leafVars,
                   builderOptions, hookVars>>

RebuildNext == \E rq \in RebuildRequests : BuildQueryAgain(rq)

SpecRebuild == RebuildInit /\ [][RebuildNext]_vars

(***************************************************************************)
(* The access hook extendedFindQuery returns, for the model Book.          *)
(***************************************************************************)
\* model.getIdName()
getIdName(model) == "id"

\* the status given to an UnknownPropertyError, and the id no instance has
ClientError == 400
NoMatchId == -1

\* err.status, << >> while none is set
NoStatus == << >>

ignoreErrorClass(err) == NoStatus

\* the status the catch block gives the error before it is handed to next
statusOf(err) == IF err = "UnknownPropertyError" THEN << ClientError >> ELSE NoStatus

getFilter(context) == context.query

\* the queries the hook is invoked with: none, or a filter; a limit, skip or
\* offset of 0 and an order of none stand for a key the query does not have
HookQueries ==
    { << >> }
    \cup { [where |-> w, order |-> o, limit |-> l, skip |-> k, offset |-> k] :
             w \in RawFilters("Book", MaxHookKeys, 1, TRUE),
             o \in OrderInputs,
             l \in {0, 2},
             k \in {0, 1} }

\* what the connector calls back with: an error, no result, no rows, rows
ExecuteResults ==
    { [err |-> "ConnectorError", result |-> Undefined],
      [err |-> NONE, result |-> Undefined],
      [err |-> NONE, result |-> << >>],
      [err |-> NONE, result |-> << [id |-> 2], [id |-> 1] >>] }

HookInit ==
    /\ ctx \in { [query |-> q] : q \in HookQueries }
    /\ executed = << >>
    /\ calledBack = << >>
    /\ loaded = Undefined
    /\ nextCalls = << >>
    /\ pc = "idle"
    /\ builderOptions \in OptionInputs
    /\ request = NoRequest
    /\ normalizedOrder = Pending
    /\ built = NotBuilt
    /\ builderAliases = NewProvider
    /\ history = << >>
    /\ NormIdle
    /\ AliasIdle
    /\ LeafIdle

\* next(): the hook goes on without an error
NextPlain == [err |-> NONE, status |-> NoStatus]

extendedFindQueryEager ==
    /\ pc = "idle"
    /\ LET originalFilter == getFilter(ctx)
       IN  IF originalFilter = << >>
           THEN /\ nextCalls' = Append(nextCalls, NextPlain)
                /\ pc' = "done"
                /\ UNCHANGED <<executed, request, normalized, normalizedOrder, built,
                               builderAliases>>
           ELSE /\ Build("Book", originalFilter, builderOptions)
                /\ IF built'.err = NONE
                   THEN /\ executed' = Append(executed, built'.query)
                        /\ pc' = "executing"
                        /\ nextCalls' = Append(nextCalls, NextPlain)
                   ELSE /\ nextCalls' = Append(nextCalls,
                               [err |-> built'.err, status |-> statusOf(built'.err)])
                        /\ pc' = "done"
                        /\ UNCHANGED executed
    /\ UNCHANGED <<ctx, calledBack, loaded, raw, rejectUnknownProperties, renormalized, step,
                   aliasVars, leafVars, builderOptions, history>>

\* the hook, up to the call of connector.execute or of next
extendedFindQuery ==
    /\ pc = "idle"
    /\ LET originalFilter == getFilter(ctx)
       IN  IF originalFilter = << >>
           THEN /\ nextCalls' = Append(nextCalls, NextPlain)
                /\ pc' = "done"
                /\ UNCHANGED <<executed, request, normalized, normalizedOrder, built,
                               builderAliases>>
           ELSE /\ Build("Book", originalFilter, builderOptions)
                /\ IF built'.err = NONE
                   THEN /\ executed' = Append(executed, built'.query)
                        /\ pc' = "executing"
                        /\ UNCHANGED nextCalls
                   ELSE /\ nextCalls' = Append(nextCalls,
                               [err |-> built'.err, status |-> statusOf(built'.err)])
                        /\ pc' = "done"
                        /\ UNCHANGED executed
    /\ UNCHANGED <<ctx, calledBack, loaded, raw, rejectUnknownProperties, renormalized, step,
                   aliasVars, leafVars, builderOptions, history>>

executeCallbackWhereOnly(err, result) ==
    /\ pc = "executing"
    /\ IF err # NONE
       THEN /\ nextCalls' = Append(nextCalls, [err |-> err, status |-> NoStatus])
            /\ UNCHANGED ctx
       ELSE /\ ctx' = [ctx EXCEPT !.query.where =
                          IF result = Undefined \/ Len(result) = 0
                          THEN << <<"id", Scalar(<<"num", NoMatchId>>)>> >>
                          ELSE << <<"id", Ops(<< <<"inq",
                                    <<"ids", [i \in 1..Len(result) |-> result[i].id]>> >> >>)>> >>]
            /\ nextCalls' = Append(nextCalls, NextPlain)
    /\ calledBack' = Append(calledBack, [err |-> err, result |-> result])
    /\ pc' = "done"
    /\ UNCHANGED <<executed, loaded, aliasVars, leafVars, normVars, buildVars>>

\* the callback given to connector.execute
executeCallback(err, result) ==
    /\ pc = "executing"
    /\ LET idName == getIdName("Book")
       IN  IF err # NONE
           THEN /\ nextCalls' = Append(nextCalls, [err |-> err, status |-> NoStatus])
                /\ UNCHANGED ctx
           ELSE IF result = Undefined \/ Len(result) = 0
           THEN /\ ctx' = [ctx EXCEPT !.query.where =
                               << <<idName, Scalar(<<"num", NoMatchId>>)>> >>]
                /\ nextCalls' = Append(nextCalls, NextPlain)
           ELSE /\ ctx' = [ctx EXCEPT
                               !.query.where =
                                   << <<idName, Ops(<< <<"inq",
                                         <<"ids", [i \in 1..Len(result) |->
                                                      result[i][idName]]>> >> >>)>> >>,
                               !.query.order = <<"none">>,
                               !.query.limit = 0,
                               !.query.skip = 0,
                               !.query.offset = 0]
                /\ nextCalls' = Append(nextCalls, NextPlain)
    /\ calledBack' = Append(calledBack, [err |-> err, result |-> result])
    /\ pc' = "done"
    /\ UNCHANGED <<executed, loaded, aliasVars, leafVars, normVars, buildVars>>

HookNext ==
    \/ extendedFindQuery
    \/ \E r \in ExecuteResults : executeCallback(r.err, r.result)

SpecHook == HookInit /\ [][HookNext]_vars

\* a step that leaves pc = "idle" is a step of extendedFindQuery, which is
\* enabled whenever pc = "idle"; a step from "executing" to "done" is the
\* connector calling back
LeavesIdle == pc = "idle" /\ pc' \in {"executing", "done"}

CallsBack == pc = "executing" /\ pc' = "done"

\* the hook body runs once invoked, and the connector calls back once it has
\* been handed a statement
HookFairness == WF_pc(LeavesIdle) /\ WF_pc(CallsBack)

SpecHookLive == HookInit /\ [][HookNext]_vars /\ HookFairness

(***************************************************************************)
(* normalizeOrder on its own: a clause string or an array of clauses over  *)
(* Book, with and without direction tokens.                                *)
(***************************************************************************)
OrderPaths ==
    { <<"title">>, <<"id">>, <<"publisher", "name">>, <<"authors", "firstName">>,
      <<"authors", "books", "title">>, <<"publisher", "books", "id">>,
      <<UnknownName>>, <<"publisher", UnknownName>> }

DirectionTokens == { NONE, "ASC", "DESC", "asc", "Desc" }

OrderClauseInputs == { [path |-> p, dir |-> d] : p \in OrderPaths, d \in DirectionTokens }

RECURSIVE ClauseArrays(_)
ClauseArrays(n) ==
    IF n = 0 THEN { << >> }
    ELSE ClauseArrays(n - 1)
         \cup { Append(a, c) : a \in { b \in ClauseArrays(n - 1) : Len(b) = n - 1 },
                               c \in OrderClauseInputs }

RawOrders ==
    { <<"str", c>> : c \in OrderClauseInputs }
    \cup { <<"arr", a>> : a \in ClauseArrays(MaxClauses) }

OrderInit ==
    /\ request \in { [modelName |-> "Book",
                       filter |-> [where |-> << >>, order |-> o, limit |-> 0, skip |-> 0]] :
                       o \in RawOrders }
    /\ rejectUnknownProperties \in BOOLEAN
    /\ raw = << >>
    /\ normalized = Pending
    /\ renormalized = Pending
    /\ step = "new"
    /\ builderOptions = DefaultOptions
    /\ normalizedOrder = Pending
    /\ built = NotBuilt
    /\ builderAliases = NewProvider
    /\ history = << >>
    /\ AliasIdle
    /\ LeafIdle
    /\ HookIdle

NormalizeOrder ==
    /\ step = "new"
    /\ normalizedOrder' = normalizeOrder(request.modelName, request.filter.order,
                                         rejectUnknownProperties)
    /\ step' = "ordered"
    /\ UNCHANGED <<raw, rejectUnknownProperties, normalized, renormalized, aliasVars, leafVars,
                   builderOptions, request, built, builderAliases, history, hookVars>>

OrderNext == NormalizeOrder

SpecOrder == OrderInit /\ [][OrderNext]_vars

(***************************************************************************)
(* applyPropertyFilter on its own: one call with a column of Book and a    *)
(* value that is falsy, a scalar, or an object of operators.               *)
(***************************************************************************)
UnsupportedOperators == { "foo", "exists" }

LeafContents == FalsyValues \cup { Str("a"), Pattern("a", TRUE) }

LeafCallValues ==
    { Scalar(x) : x \in FalsyValues \cup { Str("a") } }
    \cup { Ops(<< <<op, c>> >>) :
              op \in { supportedOperators[i] : i \in 1..Len(supportedOperators) }
                      \cup UnsupportedOperators,
              c \in LeafContents }
    \cup { Ops(<< >>), Ops(<< <<"foo", Str("a")>>, <<"like", Str("a")>> >>) }

LeafInit ==
    /\ leafCall \in { [property  |-> getColumnName(fromModel("Book", createAlias(
                                         NewProvider, "Book", NoRelation, FALSE).alias),
                                         FilterProperty("Book"), TRUE),
                        value     |-> v,
                        bool      |-> b,
                        rootModel |-> fromModel("Book", createAlias(
                                         NewProvider, "Book", NoRelation, FALSE).alias)] :
                        v \in LeafCallValues, b \in {"and", "or"} }
    /\ applied = NotApplied
    /\ NormIdle
    /\ AliasIdle
    /\ BuildIdle
    /\ HookIdle

ApplyPropertyFilter ==
    /\ applied = NotApplied
    /\ applied' = applyPropertyFilter(leafCall.property, leafCall.value, leafCall.bool,
                                      leafCall.rootModel)
    /\ UNCHANGED <<leafCall, aliasVars, normVars, buildVars, hookVars>>

LeafNext == ApplyPropertyFilter

SpecLeaf == LeafInit /\ [][LeafNext]_vars

(***************************************************************************)
(* The after-remote hook of find, extendedFindQueryHandleOrder, for Book.  *)
(* ctx is [args, result]: args is a JSON value or Undefined, result is     *)
(* Array(records) or absent.                                               *)
(***************************************************************************)
MaxRecords == 3
MaxInq == 2

Array(elements) == <<"array", elements>>

\* value.key as JavaScript reads it: undefined when value is no object or has
\* no such key
Member(value, key) ==
    IF value[1] \in {"obj", "ops"} /\ HasKey(value[2], key) THEN Get(value[2], key)
    ELSE Undefined

Truthy(value) == value \notin FalsyValues

\* a && b
AndAlso(a, b) == IF Truthy(a) THEN b ELSE a

\* ctx.args && ctx.args.filter && ctx.args.filter.where
\*   && ctx.args.filter.where[idName] && ctx.args.filter.where[idName].inq
inqOfRequest(context, idName) ==
    AndAlso(context.args,
      AndAlso(Member(context.args, "filter"),
        AndAlso(Member(Member(context.args, "filter"), "where"),
          AndAlso(Member(Member(Member(context.args, "filter"), "where"), idName),
                  Member(Member(Member(Member(context.args, "filter"), "where"), idName),
                         "inq")))))

\* Array.prototype.indexOf, counting from 0, -1 when the element is missing
indexOf(list, element) ==
    IF \E i \in 1..Len(list) : list[i] = element
    THEN (CHOOSE i \in 1..Len(list) :
             list[i] = element /\ \A k \in 1..(i - 1) : list[k] # element) - 1
    ELSE -1

\* the comparator the hook sorts with
compareByIdsOrder(idsOrder, idName, a, b) ==
    indexOf(idsOrder, a[idName]) - indexOf(idsOrder, b[idName])

IndexOrders(n) ==
    { f \in [1..n -> 1..n] : \A i, j \in 1..n : i # j => f[i] # f[j] }

sortKept(elements, idsOrder, idName) == { elements }

\* Array.prototype.sort with that comparator: the elements in an order the
\* comparator agrees with; which of the elements that compare equal comes
\* first is the engine's choice
sort(elements, idsOrder, idName) ==
    { [i \in 1..Len(elements) |-> elements[f[i]]] : f \in
        { g \in IndexOrders(Len(elements)) :
            \A i, j \in 1..Len(elements) :
                i < j => compareByIdsOrder(idsOrder, idName,
                                           elements[g[i]], elements[g[j]]) <= 0 } }

RecordIds == {1, 2, 3}

Records == { [id |-> i, title |-> t] : i \in RecordIds, t \in {"a", "b"} }

RECURSIVE SeqsUpTo(_, _)
SeqsUpTo(S, n) ==
    IF n = 0 THEN { << >> }
    ELSE SeqsUpTo(S, n - 1)
         \cup { Append(q, x) : q \in { r \in SeqsUpTo(S, n - 1) : Len(r) = n - 1 },
                               x \in S }

\* the arguments of the remote call: none, no filter, no where, a where
\* without the id, an id without inq, an id with an inq list
AfterArgs ==
    { Undefined, Obj(<< >>), Obj(<< <<"filter", Obj(<< >>)>> >>) }
    \cup { Obj(<< <<"filter", Obj(<< <<"where", Obj(w)>> >>)>> >>) :
             w \in { << >>,
                     << <<"title", Ops(<< <<"=", Str("a")>> >>)>> >>,
                     << <<"id", Ops(<< <<"neq", Str("a")>> >>)>> >> }
                   \cup { << <<"id", Ops(<< <<"inq", <<"ids", l>> >> >>)>> >> :
                            l \in SeqsUpTo(RecordIds, MaxInq) } }

AfterInit ==
    /\ ctx \in { [args |-> a, result |-> r] :
                    a \in AfterArgs,
                    r \in {Undefined, Null}
                          \cup { Array(q) : q \in SeqsUpTo(Records, MaxRecords) } }
    /\ loaded = ctx.result
    /\ executed = << >>
    /\ calledBack = << >>
    /\ nextCalls = << >>
    /\ pc = "loaded"
    /\ NormIdle
    /\ AliasIdle
    /\ BuildIdle
    /\ LeafIdle

extendedFindQueryHandleOrder ==
    /\ pc = "loaded"
    /\ IF ~Truthy(ctx.result)
       THEN UNCHANGED ctx
       ELSE LET idName == getIdName("Book")
            IN  IF Truthy(inqOfRequest(ctx, idName))
                THEN \E sorted \in sort(ctx.result[2], inqOfRequest(ctx, idName)[2],
                                         idName) :
                        ctx' = [ctx EXCEPT !.result = Array(sorted)]
                ELSE UNCHANGED ctx
    /\ nextCalls' = Append(nextCalls, NextPlain)
    /\ pc' = "done"
    /\ UNCHANGED <<executed, calledBack, loaded, aliasVars, leafVars, normVars, buildVars>>

AfterNext == extendedFindQueryHandleOrder

SpecAfter == AfterInit /\ [][AfterNext]_vars

(***************************************************************************)
(* Claims.                                                                 *)
(***************************************************************************)
RECURSIVE Inherits(_, _)
Built == step = "built" /\ built.err = NONE /\ request # NoRequest

\* the table a relation's first join brings in: the pivot of a through-relation,
\* the target otherwise
FirstTable(relation) ==
    IF relation.modelThrough # NONE THEN relation.modelThrough ELSE relation.modelTo

\* the first joins of a relation made from the table aliased alias
RelationJoins(query, alias, relation) ==
    SelectSeq(query.joins, LAMBDA j : j.keyFrom.alias = alias
                                      /\ j.table.table = FirstTable(relation))

\* the aliases under which the relation's target is joined from alias
TargetAliases(query, alias, relation) ==
    LET first == RelationJoins(query, alias, relation)
        firstAliases == { first[i].table.alias : i \in 1..Len(first) }
    IN  IF relation.modelThrough = NONE THEN firstAliases
        ELSE { query.joins[i].table.alias :
                 i \in { k \in 1..Len(query.joins) :
                           /\ query.joins[k].keyFrom.alias \in firstAliases
                           /\ query.joins[k].table.table = relation.modelTo } }

\* how often a relation is a key of a member of the level's and/or lists
Occurrences(query, name) ==
    Len(SelectSeq(_forEachQuery(ListAt(query, "and") \o ListAt(query, "or")),
                  LAMBDA e : e[1] = name))

QueryAliases(query) ==
    << query.table.alias >> \o [i \in 1..Len(query.joins) |-> query.joins[i].table.alias]

\* C2: in every query buildQuery produces, the alias of the root table and the
\* aliases of all joined tables, pivots and targets alike, are pairwise distinct.
C2_TableAliasesAreDistinct ==
    Built =>
        \A i, j \in 1..Len(QueryAliases(built.query)) :
            i # j => QueryAliases(built.query)[i] # QueryAliases(built.query)[j]

\* two paths reach the root's model again, through a pivot that is joined twice
C2_Witness ==
    /\ Built
    /\ \E i, j \in 1..Len(built.query.joins) :
          /\ i # j
          /\ built.query.joins[i].table.table = built.query.joins[j].table.table
    /\ \E i \in 1..Len(built.query.joins) :
          built.query.joins[i].table.table = built.query.table.table

\* provider p knew of call i: p made it, or the provider p was spawned from
\* knew of it when p was spawned
Inherits(p, i) ==
    \/ issued[i].by = p
    \/ /\ providers[p].parent # 0
       /\ i <= providers[p].born
       /\ Inherits(providers[p].parent, i)

RECURSIVE LevelJoinedOnce(_, _, _, _)
\* every relation the level's and/or lists reach is joined once from the
\* level's table, and so are the relations of the sub-filter of its first
\* occurrence
LevelJoinedOnce(query, model, level, depth) ==
    \A relation \in RelationDefs(model.name) :
        Occurrences(level, relation.name) > 0 =>
            /\ Len(RelationJoins(query, model.alias, relation)) = 1
            /\ Cardinality(TargetAliases(query, model.alias, relation)) = 1
            /\ depth > 0 =>
                 LET entries == _forEachQuery(ListAt(level, "and") \o ListAt(level, "or"))
                     first   == entries[CHOOSE i \in 1..Len(entries) :
                                    /\ entries[i][1] = relation.name
                                    /\ \A k \in 1..(i - 1) : entries[k][1] # relation.name]
                     target  == CHOOSE a \in TargetAliases(query, model.alias, relation) : TRUE
                 IN  LevelJoinedOnce(query, fromModel(relation.modelTo, target),
                                     QueryOf(first[2]), depth - 1)

RECURSIVE HasUnknown(_, _)
\* the filter references a name that is no property and no relation of the
\* entity it is applied to
HasUnknown(m, o) ==
    \E i \in 1..Len(o) :
        LET e == o[i]
        IN  IF e[1] \in {"and", "or"}
            THEN \E k \in 1..Len(e[2][2]) : HasUnknown(m, e[2][2][k])
            ELSE IF isRelation(m, e[1])
            THEN HasUnknown(getRelation(m, e[1]).modelTo, QueryOf(e[2]))
            ELSE ~isProperty(m, e[1])

RECURSIVE OnlySupportedOperators(_, _)
OnlySupportedOperators(m, o) ==
    \A i \in 1..Len(o) :
        LET e == o[i]
        IN  IF e[1] \in {"and", "or"}
            THEN \A k \in 1..Len(e[2][2]) : OnlySupportedOperators(m, e[2][2][k])
            ELSE IF isRelation(m, e[1])
            THEN OnlySupportedOperators(getRelation(m, e[1]).modelTo, QueryOf(e[2]))
            ELSE e[2][1] = "ops" =>
                    \A k \in 1..Len(e[2][2]) : IsSupported(e[2][2][k][1])

RECURSIVE KnownLeaves(_, _, _)
\* the property leaves of a filter, each with the relation path that leads to
\* it, in the order the normalizer visits them
KnownLeaves(m, path, o) ==
    Concat([i \in 1..Len(o) |->
              IF isProperty(m, o[i][1]) THEN << <<path, o[i][1]>> >>
              ELSE IF isRelation(m, o[i][1])
              THEN KnownLeaves(getRelation(m, o[i][1]).modelTo,
                               Append(path, o[i][1]), QueryOf(o[i][2]))
              ELSE << >>])
    \o Concat([k \in 1..Len(ListAt(o, "and")) |-> KnownLeaves(m, path, ListAt(o, "and")[k])])
    \o Concat([k \in 1..Len(ListAt(o, "or")) |-> KnownLeaves(m, path, ListAt(o, "or")[k])])

UnknownHandled ==
    IF rejectUnknownProperties
    THEN /\ normalized.err = "UnknownPropertyError"
         /\ step = "built" => built.err = "UnknownPropertyError"
    ELSE /\ normalized.err = NONE
         /\ ~HasUnknown("Book", normalized.val)
         /\ KnownLeaves("Book", << >>, normalized.val) = KnownLeaves("Book", << >>, raw)
         /\ step = "built" => built.err = NONE

C6_BuildErrorReachesNextOnly ==
    built.err \notin {NONE, NotBuilt.err} =>
        /\ executed = << >>
        /\ ctx.query = request.filter
        /\ nextCalls = << [err |-> built.err,
                           status |-> IF built.err = "UnknownPropertyError"
                                      THEN << 400 >> ELSE << >>] >>

C6_Witness ==
    /\ pc = "done"
    /\ built.err = "UnknownPropertyError"
    /\ ctx.query.order # <<"none">>
    /\ nextCalls # << >>

\* C7: buildQuery calls on one builder do not interfere: a call with the same
\* entity name and filter as an earlier call returns the same query, with the
\* same aliases, whatever was built in between.
C7_SameArgumentsSameQuery ==
    \A i, j \in 1..Len(history) :
        history[i].request = history[j].request => history[i].result = history[j].result

C7_Witness ==
    /\ Len(history) = MaxBuilds
    /\ history[1].request = history[MaxBuilds].request
    /\ history[1].request # history[2].request
    /\ history[1].result.err = NONE
    /\ history[2].result.err = NONE
    /\ Len(history[1].result.query.joins) > 0

Normalized == step \in {"normalized", "renormalized"}

OnlyScalarLeaves(o) ==
    \A i \in 1..Len(o) : isProperty("Book", o[i][1]) /\ o[i][2][1] = "s"

\* C8: a filter of {property: scalar} leaves on known properties is normalized to
\* an and-group with one leaf {property: {'=': scalar}} per input property, in
\* input key order.
C8_ScalarLeavesGetEquality ==
    (Normalized /\ OnlyScalarLeaves(raw)) =>
        normalized = Ok(<< <<"and",
            List([i \in 1..Len(raw) |->
                    << <<raw[i][1], Ops(<< <<"=", raw[i][2][2]>> >>)>> >>])>> >>)

C8_Witness ==
    /\ step = "normalized"
    /\ OnlyScalarLeaves(raw)
    /\ Len(raw) = 2

IsKnown(m, e) == isProperty(m, e[1]) \/ isRelation(m, e[1])

KnownDirect(m, o) == SelectSeq(o, LAMBDA e : IsKnown(m, e))

RECURSIVE GroupSources(_, _)
\* the raw entries a level's group is made of, in the group's order: the direct
\* known leaves, what the members of the and-list contribute, the or-list
GroupSources(m, o) ==
    KnownDirect(m, o)
    \o Concat([i \in 1..Len(ListAt(o, "and")) |-> GroupSources(m, ListAt(o, "and")[i])])
    \o (IF HasKey(o, "or") THEN << <<"or", Get(o, "or")>> >> ELSE << >>)

KeysOf(entries) == [i \in 1..Len(entries) |-> entries[i][1]]

GroupKeys(group) == [i \in 1..Len(group) |-> group[i][1][1]]

RECURSIVE LevelHolds(_, _, _)
\* the normalized level n of the raw level o over entity m is grouped as claimed,
\* and so is every relation sub-filter in its group
LevelHolds(m, o, n) ==
    LET src == GroupSources(m, o)
    IN  IF HasKey(n, "and")
        THEN LET group == ListAt(n, "and")
             IN  /\ \A i \in 1..Len(group) : Len(group[i]) = 1
                 /\ GroupKeys(group) = KeysOf(src)
                 /\ \A i \in 1..Len(group) :
                        isRelation(m, src[i][1]) =>
                            LevelHolds(getRelation(m, src[i][1]).modelTo,
                                       src[i][2][2], group[i][1][2][2])
        ELSE KeysOf(src) = << "or" >>

RECURSIVE SumSources(_, _)
SumSources(m, objects) ==
    IF objects = << >> THEN 0
    ELSE Len(GroupSources(m, Head(objects))) + SumSources(m, Tail(objects))

\* C9 as stated, at the root: the and-group holds the direct known leaves and the
\* single-key leaves of the members of the and-list and nothing else, so its
\* length is the number of direct known leaves plus the number of leaves across
\* all members of the and-list.
C9_GroupLengthIsLeavesPlusAndKeys ==
    (Normalized /\ normalized.err = NONE /\ HasKey(normalized.val, "and")) =>
        Len(ListAt(normalized.val, "and")) =
            Len(KnownDirect("Book", raw)) + SumSources("Book", ListAt(raw, "and"))

\* C9, amended: at every level that has an and-group, the group is the level's
\* direct known leaves in key order, then what each member of the and-list
\* contributes in array order (a single-key leaf per known key, a nested
\* and-list flattened the same way, one or-node for an or-list), then one
\* or-node when the level has an or-list; every member of the group has a
\* single key and none is an and-node.  A level without an and-group is a
\* level that holds nothing but an or-list.
C9_GroupIsLeavesThenAndMembersThenOr ==
    (Normalized /\ normalized.err = NONE) => LevelHolds("Book", raw, normalized.val)

C9_Witness ==
    /\ step = "normalized"
    /\ normalized.err = NONE
    /\ KnownDirect("Book", raw) # << >>
    /\ ListAt(raw, "and") # << >>
    /\ Len(ListAt(normalized.val, "and")) = 2

\* C10: normalizing a normalized filter again returns it unchanged.
C10_NormalizeIsIdempotent ==
    step = "renormalized" => renormalized = normalized

C10_Witness ==
    /\ step = "renormalized"
    /\ \E i, j \in 1..Len(ListAt(normalized.val, "and")) :
          /\ isRelation("Book", ListAt(normalized.val, "and")[i][1][1])
          /\ ListAt(normalized.val, "and")[j][1][1] = "or"
          /\ ListAt(normalized.val, "and")[j][1][2][2] # << >>

RECURSIVE Resolvable(_, _)
\* every name but the last of the path is a relation, the last a property
Resolvable(m, path) ==
    IF Len(path) = 1 THEN isProperty(m, path[1])
    ELSE isRelation(m, path[1]) /\ Resolvable(getRelation(m, path[1]).modelTo, Tail(path))

RECURSIVE Nested(_, _)
\* {r1: {r2: {p: dir}}}
Nested(path, dir) ==
    IF Len(path) = 1 THEN << <<path[1], <<"dir", dir>> >> >>
    ELSE << <<path[1], Obj(Nested(Tail(path), dir))>> >>

ClausesOf(order) ==
    CASE order[1] = "str" -> << order[2] >>
      [] order[1] = "arr" -> order[2]
      [] OTHER            -> << >>

ExpectedDirection(token) == IF token \in {NONE, "ASC", "asc"} THEN "asc" ELSE "desc"

\* C11: normalizeOrder, given a clause string or an array of clauses whose
\* paths resolve against the schema, returns one directive per clause in input
\* order; the clause r1.r2.p DIR becomes {r1: {r2: {p: dir}}}, dir being the
\* token in lower case, asc when the token is left out.
C11_OneNestedDirectivePerClause ==
    LET clauses == ClausesOf(request.filter.order)
    IN  (step = "ordered"
         /\ \A i \in 1..Len(clauses) : Resolvable(request.modelName, clauses[i].path))
        => normalizedOrder =
              Ok([i \in 1..Len(clauses) |->
                     Nested(clauses[i].path, ExpectedDirection(clauses[i].dir))])

C11_Witness ==
    /\ step = "ordered"
    /\ request.filter.order[1] = "arr"
    /\ Len(request.filter.order[2]) = 2
    /\ Len(request.filter.order[2][1].path) = 3
    /\ request.filter.order[2][1].dir = "Desc"
    /\ request.filter.order[2][2].dir = NONE
    /\ normalizedOrder.err = NONE
    /\ Len(normalizedOrder.val) = 2

RECURSIVE DirectiveLeaf(_)
\* the property and the direction at the end of a nested order directive
DirectiveLeaf(directive) ==
    IF directive[1][2][1] = "dir"
    THEN [property |-> directive[1][1], direction |-> directive[1][2]]
    ELSE DirectiveLeaf(directive[1][2][2])

\* C12: for each property order directive the query gets exactly one aggregate
\* over that property's qualified column, min for asc and max for desc, and one
\* order-by entry on the aggregate's alias with the directive's direction, in
\* the sequence of the directives.
C12_OneAggregateAndOrderByPerDirective ==
    Built =>
        /\ Len(built.query.order) = Len(normalizedOrder.val)
        /\ \A i \in 1..Len(normalizedOrder.val) :
              LET leaf == DirectiveLeaf(normalizedOrder.val[i])
                  stmt == built.query.order[i]
              IN  /\ stmt.fn = (IF leaf.direction = <<"dir", "asc">> THEN "min" ELSE "max")
                  /\ stmt.column.column = (IF builderOptions.preserveColumnCase
                                           THEN leaf.property ELSE Lower(leaf.property))
                  /\ stmt.as = <<stmt.column.alias, leaf.property>>
                  /\ stmt.orderBy = stmt.as
                  /\ stmt.direction = leaf.direction

C12_Witness ==
    /\ Built
    /\ Len(built.query.order) = 2
    /\ built.query.order[1].fn = "min"
    /\ built.query.order[2].fn = "max"
    /\ built.query.order[1].column.column = "firstname"

RECURSIVE TouchedByWhere(_, _, _)
\* the relation paths a normalized where filter touches, one entry per
\* occurrence, through relation sub-filters and and/or nodes alike
TouchedByWhere(m, prefix, o) ==
    Concat([i \in 1..Len(o) |->
              IF isRelation(m, o[i][1])
              THEN << Append(prefix, o[i][1]) >>
                   \o TouchedByWhere(getRelation(m, o[i][1]).modelTo,
                                     Append(prefix, o[i][1]), QueryOf(o[i][2]))
              ELSE IF o[i][1] \in {"and", "or"}
              THEN Concat([k \in 1..Len(o[i][2][2]) |->
                              TouchedByWhere(m, prefix, o[i][2][2][k])])
              ELSE << >>])

RECURSIVE TouchedByOrder(_, _, _)
TouchedByOrder(m, prefix, directive) ==
    IF directive[1][2][1] = "dir" THEN << >>
    ELSE << Append(prefix, directive[1][1]) >>
         \o TouchedByOrder(getRelation(m, directive[1][1]).modelTo,
                           Append(prefix, directive[1][1]), directive[1][2][2])

Touched ==
    TouchedByWhere(request.modelName, << >>, normalized.val)
    \o Concat([i \in 1..Len(normalizedOrder.val) |->
                  TouchedByOrder(request.modelName, << >>, normalizedOrder.val[i])])

RECURSIVE JoinsOfPath(_, _)
\* the joins a relation path asks for at its end: two through a pivot, else one
JoinsOfPath(m, path) ==
    IF Len(path) = 1
    THEN IF getRelation(m, path[1]).modelThrough # NONE THEN 2 ELSE 1
    ELSE JoinsOfPath(getRelation(m, path[1]).modelTo, Tail(path))

RECURSIVE SumJoins(_, _)
SumJoins(m, paths) ==
    IF paths = << >> THEN 0 ELSE JoinsOfPath(m, Head(paths)) + SumJoins(m, Tail(paths))

ColumnOf(alias, key) ==
    [alias |-> alias, column |-> IF builderOptions.preserveColumnCase THEN key ELSE Lower(key)]

RECURSIVE JoinsWellFormed(_, _, _)
\* from the i-th on, the joins come relation by relation: one join for a
\* reference, the pivot's and then the target's for a through-relation, each
\* keyed as the relation says; models maps the aliases known so far to models
JoinsWellFormed(joins, i, models) ==
    IF i > Len(joins) THEN TRUE
    ELSE LET j == joins[i]
         IN  /\ j.keyFrom.alias \in DOMAIN models
             /\ \E r \in RelationDefs(models[j.keyFrom.alias]) :
                   /\ FirstTable(r) = j.table.table
                   /\ j.keyFrom = ColumnOf(j.keyFrom.alias, r.keyFrom)
                   /\ j.keyTo = ColumnOf(j.table.alias, r.keyTo)
                   /\ IF r.modelThrough = NONE
                      THEN JoinsWellFormed(joins, i + 1,
                                           models @@ (j.table.alias :> r.modelTo))
                      ELSE /\ i + 1 <= Len(joins)
                           /\ LET t == joins[i + 1]
                                  found == getPropertyQueriedThrough(
                                               fromModel(r.modelTo, t.table.alias), r)
                              IN  /\ t.table.table = r.modelTo
                                  /\ t.keyFrom = ColumnOf(j.table.alias, r.keyThrough)
                                  /\ t.keyTo = ColumnOf(t.table.alias,
                                                 IF found # NONE THEN found ELSE "id")
                                  /\ JoinsWellFormed(joins, i + 2,
                                         models @@ (t.table.alias :> r.modelTo))

\* the shape of the joins alone (the first sentence of C13), which holds
C13_JoinsAreWellFormed ==
    Built => JoinsWellFormed(built.query.joins, 1,
                             (built.query.table.alias :> request.modelName))

\* C13: every relation leaf joined gives one join without a pivot and two
\* with one (the pivot on the source's key, then the target on the pivot's
\* through key and the looked-up or id key), and a filter that touches N
\* distinct relation paths without repeats yields N joins, 2 for each
\* through-relation.
C13_JoinsPerRelationPath ==
    (Built /\ \A a, b \in 1..Len(Touched) : a # b => Touched[a] # Touched[b]) =>
        /\ JoinsWellFormed(built.query.joins, 1,
                           (built.query.table.alias :> request.modelName))
        /\ Len(built.query.joins) = SumJoins(request.modelName, Touched)

Applied == leafCall # NoLeaf /\ applied # NotApplied

\* C14: applyPropertyFilter given a value whose operator is not one of the
\* supported operators fails with UnknownOperatorError, and never returns
\* normally without having added a predicate.
C14_UnsupportedOperatorFails ==
    (/\ Applied
     /\ leafCall.value[1] = "ops"
     /\ leafCall.value[2] # << >>
     /\ \A k \in 1..Len(leafCall.value[2]) : ~IsSupported(leafCall.value[2][k][1]))
    => /\ applied.err = "UnknownOperatorError"
       /\ ~(applied.err = NONE /\ applied.stmts = << >>)

\* C15: for a value {operator: content} with a supported operator, a falsy or
\* absent content adds no predicate and a truthy content adds exactly one.
C15_FalsyContentAddsNoPredicate ==
    (/\ Applied
     /\ leafCall.value[1] = "ops"
     /\ Len(leafCall.value[2]) = 1
     /\ IsSupported(leafCall.value[2][1][1]))
    => /\ applied.err = NONE
       /\ Len(applied.stmts) = IF leafCall.value[2][1][2] \in FalsyValues THEN 0 ELSE 1

\* what does hold: a falsy value as a whole adds nothing, and so does a value
\* that holds no supported operator; a supported operator adds one predicate
\* whatever its content, but for regexp with a null or absent content
C15_FalsyValueAddsNoPredicate ==
    Applied =>
        IF leafCall.value[1] = "s"
           \/ \A k \in 1..Len(leafCall.value[2]) : ~IsSupported(leafCall.value[2][k][1])
        THEN applied = Returned(<< >>)
        ELSE \/ applied.err = NONE /\ Len(applied.stmts) = 1
             \/ /\ applied.err = "TypeError"
                /\ \E k \in 1..Len(leafCall.value[2]) :
                      /\ leafCall.value[2][k][1] = "regexp"
                      /\ leafCall.value[2][k][2] \in {Null, Undefined}

RECURSIVE PredicateAliases(_)
\* the aliases that qualify the columns of the predicates of a list of statements
PredicateAliases(stmts) ==
    UNION { IF stmts[i][1] = "pred" THEN { stmts[i][3].alias }
            ELSE PredicateAliases(stmts[i][3]) : i \in 1..Len(stmts) }

OrderAliases(query) == { query.order[i].column.alias : i \in 1..Len(query.order) }

JoinedAliases(query) == { QueryAliases(query)[i] : i \in 1..Len(QueryAliases(query)) }

\* C16: in every query buildQuery produces, each alias that qualifies the
\* column of a where predicate or of an order aggregate is the root's alias
\* or the alias of a table joined in that query.
C16_QualifyingAliasesAreJoined ==
    Built => (PredicateAliases(built.query.where) \cup OrderAliases(built.query))
                 \subseteq JoinedAliases(built.query)

\* the half of C16 about the where predicates
C16_WhereAliasesAreJoined ==
    Built => PredicateAliases(built.query.where) \subseteq JoinedAliases(built.query)

\* the half of C16 about the order aggregates
C16_OrderAliasesAreJoined ==
    Built => OrderAliases(built.query) \subseteq JoinedAliases(built.query)

(***************************************************************************)
(* The reading of a where clause: a predicate is identified by its column  *)
(* name, operator and value; a group that holds no predicate is not        *)
(* emitted, and neither is its connective; the statements emitted are      *)
(* joined by their connectives, the first one's being dropped, and AND     *)
(* binds tighter than OR.                                                  *)
(***************************************************************************)
AtomOf(stmt) == <<stmt[3].column, stmt[4], stmt[5]>>

RECURSIVE Atoms(_)
Atoms(stmts) ==
    UNION { IF stmts[i][1] = "pred" THEN { AtomOf(stmts[i]) } ELSE Atoms(stmts[i][3]) :
            i \in 1..Len(stmts) }

Emitted(stmts) == SelectSeq(stmts, LAMBDA x : x[1] = "pred" \/ Atoms(x[3]) # {})

RECURSIVE Holds(_, _)
RECURSIVE HoldsFrom(_, _, _, _, _)

StatementHolds(stmt, true) ==
    IF stmt[1] = "pred" THEN AtomOf(stmt) \in true ELSE Holds(stmt[3], true)

\* acc: the disjuncts closed so far; cur: the conjunction being read
HoldsFrom(es, i, acc, cur, true) ==
    IF i > Len(es) THEN acc \/ cur
    ELSE IF es[i][2] = "and"
    THEN HoldsFrom(es, i + 1, acc, cur /\ StatementHolds(es[i], true), true)
    ELSE HoldsFrom(es, i + 1, acc \/ cur, StatementHolds(es[i], true), true)

Holds(stmts, true) ==
    IF Emitted(stmts) = << >> THEN TRUE
    ELSE HoldsFrom(Emitted(stmts), 2, FALSE, StatementHolds(Emitted(stmts)[1], true), true)

RECURSIVE Means(_, _, _)
\* what a normalized filter means: the members of the and list hold and, when
\* there is an or list, one of its members does; a relation leaf means what
\* its filter means on the target
EntryMeans(m, entry, true) ==
    IF isRelation(m, entry[1])
    THEN Means(getRelation(m, entry[1]).modelTo, QueryOf(entry[2]), true)
    ELSE IF isProperty(m, entry[1])
    THEN LET stmts == applyPropertyFilter(
                          getColumnName(fromModel(m, NoAlias), entry[1],
                                        builderOptions.preserveColumnCase),
                          entry[2], "and", fromModel(m, NoAlias)).stmts
         IN  stmts = << >> \/ AtomOf(stmts[1]) \in true
    ELSE Means(m, << entry >>, true)

Means(m, query, true) ==
    /\ \A i \in 1..Len(ListAt(query, "and")) :
          \A k \in 1..Len(ListAt(query, "and")[i]) :
             EntryMeans(m, ListAt(query, "and")[i][k], true)
    /\ \/ ListAt(query, "or") = << >>
       \/ \E i \in 1..Len(ListAt(query, "or")) :
             \A k \in 1..Len(ListAt(query, "or")[i]) :
                EntryMeans(m, ListAt(query, "or")[i][k], true)

RECURSIVE Constrains(_, _)
\* every relation leaf and every and/or node of the filter holds a predicate
Constrains(m, query) ==
    \A key \in {"and", "or"} :
        \A i \in 1..Len(ListAt(query, key)) :
            /\ ListAt(query, key)[i] # << >>
            /\ \A k \in 1..Len(ListAt(query, key)[i]) :
                  LET entry == ListAt(query, key)[i][k]
                  IN  IF isRelation(m, entry[1])
                      THEN /\ ListAt(QueryOf(entry[2]), "and") \o ListAt(QueryOf(entry[2]), "or")
                                 # << >>
                           /\ Constrains(getRelation(m, entry[1]).modelTo, QueryOf(entry[2]))
                      ELSE IF entry[1] \in {"and", "or"}
                      THEN entry[2][2] # << >> /\ Constrains(m, << entry >>)
                      ELSE TRUE

\* C17: a relation leaf is combined with its siblings by the connective of
\* its list, its whole predicate being one disjunct of an or list (also when
\* one of the target's two groups is empty) and one conjunct of an and list,
\* and property leaves are ANDed in an and list and ORed in an or list: the
\* where clause holds exactly when the normalized filter does.
C17_LeavesCombineByTheirList ==
    (Built /\ Constrains(request.modelName, normalized.val)) =>
        \A true \in SUBSET Atoms(built.query.where) :
            Holds(built.query.where, true) = Means(request.modelName, normalized.val, true)

\* C18: within one built query the aliases given to the aggregate order
\* columns are pairwise distinct, for every order list normalizeOrder accepts.
C18_OrderAliasesAreDistinct ==
    Built =>
        \A i, j \in 1..Len(built.query.order) :
            i # j => built.query.order[i].as # built.query.order[j].as

RECURSIVE DirectivePath(_)
DirectivePath(directive) ==
    IF directive[1][2][1] = "dir" THEN << directive[1][1] >>
    ELSE << directive[1][1] >> \o DirectivePath(directive[1][2][2])

\* the order lists that name no property path twice do get distinct aliases
C18_DistinctPathsGetDistinctAliases ==
    (Built /\ \A i, j \in 1..Len(normalizedOrder.val) :
                 i # j => DirectivePath(normalizedOrder.val[i])
                              # DirectivePath(normalizedOrder.val[j])) =>
        \A i, j \in 1..Len(built.query.order) :
            i # j => built.query.order[i].as # built.query.order[j].as

Answered == pc = "done" /\ calledBack # << >>

\* C20: when execute succeeds with rows, ctx.query.where becomes
\* {id: {inq: ids}}, ids being the ids of the rows as returned, and order,
\* limit, skip and offset are removed; with no rows or no result it becomes
\* {id: -1} and the other keys stay; nothing else of the original where is kept.
C20_SuccessRewritesTheQuery ==
    (Answered /\ calledBack[1].err = NONE) =>
        LET result == calledBack[1].result
        IN  IF result = Undefined \/ result = << >>
            THEN ctx.query = [request.filter EXCEPT
                                 !.where = << <<"id", Scalar(<<"num", -1>>)>> >>]
            ELSE ctx.query =
                    [where  |-> << <<"id", Ops(<< <<"inq",
                                     <<"ids", [i \in 1..Len(result) |-> result[i].id]>> >> >>)>> >>,
                     order  |-> <<"none">>,
                     limit  |-> 0,
                     skip   |-> 0,
                     offset |-> 0]

\* rows came back for a query that had a where, an order, a limit and a skip
C20_Witness ==
    /\ Answered
    /\ calledBack[1].err = NONE
    /\ calledBack[1].result \notin {Undefined, << >>}
    /\ request.filter.where # << >>
    /\ request.filter.order # <<"none">>
    /\ request.filter.limit # 0
    /\ request.filter.skip # 0

\* C19: every invocation of the access hook calls next exactly once, on every
\* path; when a statement was handed to execute, next is called only after
\* execute's callback has fired, and with the connector's error if there is one.
C19_NextCalledExactlyOnce ==
    /\ [](Len(nextCalls) <= 1)
    /\ <>[](Len(nextCalls) = 1)
    /\ []((executed # << >> /\ nextCalls # << >>) => calledBack # << >>)
    /\ []((calledBack # << >> /\ calledBack[1].err # NONE) =>
             nextCalls = << [err |-> calledBack[1].err, status |-> NoStatus] >>)

\* the connector called back with an error and next got it
C19_Witness ==
    /\ Answered
    /\ executed # << >>
    /\ calledBack[1].err # NONE
    /\ Len(nextCalls) = 1

AfterDone == pc = "done" /\ loaded # Undefined /\ ctx # NoContext

\* the inq list of the request's where[id], << >> with has FALSE when there is none
RequestInq ==
    LET filter == Member(ctx.args, "filter")
        where  == Member(filter, "where")
        id     == Member(where, "id")
        inq    == Member(id, "inq")
    IN  IF ctx.args # Undefined /\ inq # Undefined
        THEN [has |-> TRUE, ids |-> inq[2]]
        ELSE [has |-> FALSE, ids |-> << >>]

\* how often a record occurs in a list of records
Count(elements, x) == Cardinality({ i \in 1..Len(elements) : elements[i] = x })

IsPermutation(a, b) ==
    /\ Len(a) = Len(b)
    /\ \A i \in 1..Len(a) : Count(a, a[i]) = Count(b, a[i])

Position(ids, x) == CHOOSE i \in 1..Len(ids) : ids[i] = x /\ \A k \in 1..(i - 1) : ids[k] # x

\* C21: in the after hook, when the request filter carries where[id].inq,
\* ctx.result becomes a permutation of itself in which the records come in the
\* order of their ids in the inq list; without such a list, or without a
\* result, ctx.result stays as it was; next is called exactly once.
C21_ResultFollowsTheInqList ==
    /\ pc = "loaded" => nextCalls = << >>
    /\ AfterDone =>
          /\ nextCalls = << NextPlain >>
          /\ IF loaded \in {Undefined, Null} \/ ~RequestInq.has
             THEN ctx.result = loaded
             ELSE /\ IsPermutation(ctx.result[2], loaded[2])
                  /\ \A i, j \in 1..Len(ctx.result[2]) :
                        LET a == ctx.result[2][i].id
                            b == ctx.result[2][j].id
                            listed == { RequestInq.ids[k] : k \in 1..Len(RequestInq.ids) }
                        IN  (i < j /\ a \in listed /\ b \in listed) =>
                                Position(RequestInq.ids, a) <= Position(RequestInq.ids, b)

\* three records came in another order than the list's and were reordered:
\* the one the list does not name first, then the two it names, in its order
C21_Witness ==
    /\ AfterDone
    /\ RequestInq.has
    /\ Len(RequestInq.ids) = 2
    /\ RequestInq.ids[1] # RequestInq.ids[2]
    /\ loaded \notin {Undefined, Null}
    /\ Len(loaded[2]) = 3
    /\ ctx.result # loaded
    /\ ctx.result[2][1].id \notin {RequestInq.ids[1], RequestInq.ids[2]}
    /\ \A i \in 1..2 : ctx.result[2][i + 1].id = RequestInq.ids[i]

====
